---- MODULE Spec2Model ----
(***************************************************************************)
(* A model of O365/connection.py: the token persistence functions, the     *)
(* MicroDict lookup, the Singleton metaclass and the Connection's static   *)
(* methods login, oauth2, proxy and get_response.                          *)
(***************************************************************************)
EXTENDS Integers, Sequences, FiniteSets, TLC

VARIABLES
    instances,   \* the Connection objects ever constructed, in order of construction
    _instance,   \* Singleton._instance: 0 for None, else an index into instances
    fs,          \* the file system: path -> [exists, text]
    last,        \* what the last call did: its arguments, effects, result, exception
    hist,        \* which configuring calls have run / completed so far
    md,          \* the MicroDict under lookup
    key,         \* the key of the last MicroDict lookup
    found        \* what the last MicroDict lookup returned

vars == <<instances, _instance, fs, last, hist, md, key, found>>

(***************************************************************************)
(* Python values: None, str, int, and an object json cannot serialise.     *)
(***************************************************************************)
None == [t |-> "None", s |-> "", n |-> 0]
PyStr(x) == [t |-> "str", s |-> x, n |-> 0]
PyInt(i) == [t |-> "int", s |-> "", n |-> i]
Obj == [t |-> "object", s |-> "", n |-> 0]

(***************************************************************************)
(* A dict is the sequence of its entries [k, v] in insertion order, with   *)
(* no key twice.  Two dicts are equal when they hold the same entries.     *)
(***************************************************************************)
Entry(k, v) == [k |-> k, v |-> v]

DictHas(d, k) == \E i \in 1..Len(d) : d[i].k = k

DictGet(d, k, default) ==
    IF DictHas(d, k) THEN d[CHOOSE i \in 1..Len(d) : d[i].k = k].v ELSE default

DictSet(d, k, v) ==
    IF DictHas(d, k)
    THEN [i \in 1..Len(d) |-> IF d[i].k = k THEN Entry(k, v) ELSE d[i]]
    ELSE Append(d, Entry(k, v))

RECURSIVE DictUpdate(_, _)
DictUpdate(d, other) ==
    IF other = <<>> THEN d
    ELSE DictUpdate(DictSet(d, Head(other).k, Head(other).v), Tail(other))

DictEq(a, b) == {a[i] : i \in 1..Len(a)} = {b[i] : i \in 1..Len(b)}

(***************************************************************************)
(* json.dump(token, token_file, indent=True) and json.load(token_file).    *)
(* The text of a file is the sequence of its lexemes.                      *)
(***************************************************************************)
Lex(kind) == [k |-> kind, s |-> "", d |-> <<>>]
LexString(x) == [k |-> "string", s |-> x, d |-> <<>>]

RECURSIVE IntToDigits(_)
IntToDigits(n) == IF n < 10 THEN <<n>> ELSE Append(IntToDigits(n \div 10), n % 10)

RECURSIVE DigitsToInt(_)
DigitsToInt(d) ==
    IF d = <<>> THEN 0 ELSE 10 * DigitsToInt(SubSeq(d, 1, Len(d) - 1)) + d[Len(d)]

LexNumber(i) ==
    [k |-> "number", s |-> IF i < 0 THEN "-" ELSE "", d |-> IntToDigits(IF i < 0 THEN -i ELSE i)]

json_encode_value(v) ==
    CASE v.t = "str" -> LexString(v.s)
      [] v.t = "int" -> LexNumber(v.n)
      [] OTHER -> Lex("null")

\* The chunks written for the entries from the i-th on, and the closing brace;
\* a value json cannot serialise raises TypeError after the chunks before it.
RECURSIVE json_iterencode_dict(_, _)
json_iterencode_dict(d, i) ==
    IF i > Len(d) THEN [chunks |-> <<Lex("ws"), Lex("}")>>, raised |-> FALSE]
    ELSE LET sep == IF i > 1 THEN <<Lex(","), Lex("ws")>> ELSE <<>>
             head == sep \o <<LexString(d[i].k), Lex(":"), Lex("ws")>>
         IN  IF d[i].v.t = "object" THEN [chunks |-> head, raised |-> TRUE]
             ELSE LET rest == json_iterencode_dict(d, i + 1)
                  IN  [chunks |-> head \o <<json_encode_value(d[i].v)>> \o rest.chunks,
                       raised |-> rest.raised]

json_dump(token) ==
    IF token = <<>> THEN [chunks |-> <<Lex("{"), Lex("}")>>, raised |-> FALSE]
    ELSE LET body == json_iterencode_dict(token, 1)
         IN  [chunks |-> <<Lex("{"), Lex("ws")>> \o body.chunks, raised |-> body.raised]

json_decode_value(l) ==
    CASE l.k = "string" -> PyStr(l.s)
      [] l.k = "number" -> PyInt(IF l.s = "-" THEN -DigitsToInt(l.d) ELSE DigitsToInt(l.d))
      [] OTHER -> None

IsValueLex(l) == l.k \in {"string", "number", "null"}

\* The members of an object from position i on, up to the closing brace, which
\* has to be the last lexeme.
RECURSIVE json_parse_members(_, _, _)
json_parse_members(toks, i, acc) ==
    IF i + 3 > Len(toks) THEN [ok |-> FALSE, d |-> <<>>]
    ELSE IF ~(toks[i].k = "string" /\ toks[i + 1].k = ":" /\ IsValueLex(toks[i + 2]))
         THEN [ok |-> FALSE, d |-> <<>>]
    ELSE LET acc2 == DictSet(acc, toks[i].s, json_decode_value(toks[i + 2]))
         IN  IF toks[i + 3].k = "}" THEN [ok |-> i + 3 = Len(toks), d |-> IF i + 3 = Len(toks) THEN acc2 ELSE <<>>]
             ELSE IF toks[i + 3].k = "," THEN json_parse_members(toks, i + 4, acc2)
             ELSE [ok |-> FALSE, d |-> <<>>]

IsNotWhitespace(l) == l.k # "ws"

json_load(text) ==
    LET toks == SelectSeq(text, IsNotWhitespace)
    IN  IF Len(toks) < 2 \/ toks[1].k # "{" THEN [ok |-> FALSE, d |-> <<>>]
        ELSE IF toks[2].k = "}" THEN [ok |-> Len(toks) = 2, d |-> <<>>]
        ELSE json_parse_members(toks, 2, <<>>)

(***************************************************************************)
(* Token files.                                                            *)
(***************************************************************************)
NoPath == "<None>"                       \* token_path=None
default_token_path == "~/.o365_token"
CustomPath == "/tmp/o365_custom_token"
PathArgs == {NoPath, "", default_token_path, CustomPath}
Files == {default_token_path, CustomPath}

NoFile == [exists |-> FALSE, text |-> <<>>]

\* A token as a Python value: None, or a dict.
NoToken == [some |-> FALSE, d |-> <<>>]
SomeToken(d) == [some |-> TRUE, d |-> d]
\* A faulty variant: 'token is not None' for 'not token'.
Truthy_is_not_None(token) == token.some
Truthy(token) == token.some /\ token.d # <<>>

\* A faulty variant: the token_path argument is not used.
save_token_default_only(f, token, token_path) ==
    LET enc == json_dump(token)
    IN  [fs |-> [f EXCEPT ![default_token_path] = [exists |-> TRUE, text |-> enc.chunks]],
         raised |-> IF enc.raised THEN "TypeError" ELSE ""]

\* open(token_path, 'w') creates or truncates the file; the chunks json.dump
\* got to write before it raised stay in it.
save_token(f, token, token_path) ==
    LET path == IF token_path \in {NoPath, ""} THEN default_token_path ELSE token_path
        enc == json_dump(token)
    IN  [fs |-> [f EXCEPT ![path] = [exists |-> TRUE, text |-> enc.chunks]],
         raised |-> IF enc.raised THEN "TypeError" ELSE ""]

load_token(f, token_path) ==
    LET path == IF token_path \in {NoPath, ""} THEN default_token_path ELSE token_path
    IN  IF f[path].exists
        THEN LET r == json_load(f[path].text)
             IN  IF r.ok THEN [token |-> SomeToken(r.d), raised |-> ""]
                 ELSE [token |-> NoToken, raised |-> "JSONDecodeError"]
        ELSE [token |-> NoToken, raised |-> ""]

delete_token(f, token_path) ==
    LET path == IF token_path \in {NoPath, ""} THEN default_token_path ELSE token_path
    IN  IF f[path].exists THEN [f EXCEPT ![path] = NoFile] ELSE f

(***************************************************************************)
(* MicroDict: keys are sequences of characters.                            *)
(***************************************************************************)
lower(c) == CASE c = "S" -> "s" [] c = "I" -> "i" [] OTHER -> c
upper(c) == CASE c = "s" -> "S" [] c = "i" -> "I" [] OTHER -> c

str_lower(k) == [i \in 1..Len(k) |-> lower(k[i])]
str_upper(k) == [i \in 1..Len(k) |-> upper(k[i])]

\* key[:1] and key[1:]
first_char(k) == IF k = <<>> THEN <<>> ELSE <<k[1]>>
after_first(k) == IF k = <<>> THEN <<>> ELSE Tail(k)

\* A faulty variant: no second attempt with the uppercase key.
MicroDict__getitem__lower_only(d, k) ==
    DictGet(d, str_lower(first_char(k)) \o after_first(k), None)

MicroDict__getitem__(d, k) ==
    LET result == DictGet(d, str_lower(first_char(k)) \o after_first(k), None)
    IN  IF result = None
        THEN DictGet(d, str_upper(first_char(k)) \o after_first(k), None)
        ELSE result

\* MicroDict(x): a dict holding x's entries.
MicroDict(x) == x

(***************************************************************************)
(* Singleton and Connection.                                               *)
(***************************************************************************)
NoAuth == [set |-> FALSE, username |-> "", password |-> ""]
NoSession == [set |-> FALSE, client_id |-> "", token |-> NoToken]
NoProxy == [set |-> FALSE, d |-> <<>>]

Connection__init__ ==
    [api_version |-> None, auth |-> NoAuth, oauth |-> NoSession, client_id |-> None,
     client_secret |-> None, token |-> None, proxy_dict |-> NoProxy]

\* A faulty variant: every call constructs a Connection.
Singleton__call__always_new(insts, inst) ==
    [instances |-> Append(insts, Connection__init__), _instance |-> Len(insts) + 1]

\* Connection(): the instance of the class, constructed on the first call only.
Singleton__call__(insts, inst) ==
    IF inst = 0
    THEN [instances |-> Append(insts, Connection__init__), _instance |-> Len(insts) + 1]
    ELSE [instances |-> insts, _instance |-> inst]

\* A faulty variant: the api_version alone decides.
is_valid_by_version(c) == c.api_version \in {PyStr("1.0"), PyStr("2.0")}

is_valid(c) ==
    IF c.api_version = PyStr("1.0") THEN c.auth.set
    ELSE IF c.api_version = PyStr("2.0") THEN c.oauth.set
    ELSE FALSE

login(c, username, password) ==
    [c EXCEPT !.api_version = PyStr("1.0"),
              !.auth = [set |-> TRUE, username |-> username, password |-> password]]

proxy(c, url, port, username, password) ==
    [c EXCEPT !.proxy_dict =
        [set |-> TRUE,
         d |-> <<Entry("http", "http://" \o username \o ":" \o password \o "@" \o url \o ":" \o port),
                 Entry("https", "https://" \o username \o ":" \o password \o "@" \o url \o ":" \o port)>>]]

\* What a call did, step by step.
NoOutcome == [kind |-> "", body |-> <<>>]
Event(e, path, opts, token, out) ==
    [e |-> e, path |-> path, opts |-> opts, token |-> token, out |-> out]

OAuth2Session(client_id, token) == [set |-> TRUE, client_id |-> client_id, token |-> token]

\* oauth2(): fetch is what the prompt and the token exchange come to.
oauth2(c, f, client_id, client_secret, store_token, token_path, fetch) ==
    LET c1 == [c EXCEPT !.api_version = PyStr("2.0"),
                        !.client_id = PyStr(client_id),
                        !.client_secret = PyStr(client_secret)]
        f1 == IF ~store_token THEN delete_token(f, token_path) ELSE f
        ev1 == IF ~store_token THEN <<Event("delete_token", token_path, <<>>, NoToken, NoOutcome)>> ELSE <<>>
        ld == load_token(f1, token_path)
        ev2 == Append(ev1, Event("load_token", token_path, <<>>, ld.token, NoOutcome))
    IN  IF ld.raised # ""
        THEN [conn |-> c1, fs |-> f1, raised |-> ld.raised, events |-> ev2]
        ELSE IF ~Truthy(ld.token)
        THEN LET c2 == [c1 EXCEPT !.oauth = OAuth2Session(client_id, NoToken)]
                 ev3 == ev2 \o <<Event("prompt", "", <<>>, NoToken, NoOutcome),
                                 Event("fetch_token", "", <<>>, NoToken,
                                       [kind |-> IF fetch.ok THEN "ok" ELSE "error", body |-> <<>>])>>
             IN  IF ~fetch.ok
                 THEN [conn |-> c2, fs |-> f1, raised |-> "fetch_token error", events |-> ev3]
                 ELSE LET sv == save_token(f1, fetch.token, token_path)
                      IN  [conn |-> [c2 EXCEPT !.oauth.token = SomeToken(fetch.token)],
                           fs |-> sv.fs, raised |-> sv.raised,
                           events |-> Append(ev3, Event("save_token", token_path, <<>>,
                                                        SomeToken(fetch.token), NoOutcome))]
        ELSE [conn |-> [c1 EXCEPT !.oauth = OAuth2Session(client_id, ld.token)],
              fs |-> f1, raised |-> "", events |-> ev2]

\* The values of request options: a dict (proxies), a tuple (auth), a string.
OptDict(d) == [dict |-> d, tuple |-> <<>>, s |-> ""]
OptTuple(t) == [dict |-> <<>>, tuple |-> t, s |-> ""]
OptStr(x) == [dict |-> <<>>, tuple |-> <<>>, s |-> x]

\* What a GET comes to: the token-expiry signal, another error of the transport,
\* or a response whose body is a JSON object.
Expired == [kind |-> "TokenExpiredError", body |-> <<>>]
TransportError == [kind |-> "transport error", body |-> <<>>]
Response(body) == [kind |-> "response", body |-> body]

\* A faulty variant: the proxy settings are put in after the caller's options.
con_params_proxy_last(c, kwargs) ==
    IF c.proxy_dict.set /\ c.proxy_dict.d # <<>>
    THEN DictSet(DictUpdate(<<>>, kwargs), "proxies", OptDict(c.proxy_dict.d))
    ELSE DictUpdate(<<>>, kwargs)

\* The request options: the proxy settings, overlaid by the caller's options.
con_params(c, kwargs) ==
    LET params == IF c.proxy_dict.set /\ c.proxy_dict.d # <<>>
                  THEN <<Entry("proxies", OptDict(c.proxy_dict.d))>> ELSE <<>>
    IN  DictUpdate(params, kwargs)

\* A faulty variant: an empty "value" array is taken for a missing one.
get_response_values_empty_is_error(c, f, events, resp) ==
    IF resp.kind # "response"
    THEN [conn |-> c, fs |-> f, raised |-> resp.kind, events |-> events, values |-> <<>>]
    ELSE IF DictGet(resp.body, "value", <<>>) = <<>>
    THEN [conn |-> c, fs |-> f, raised |-> "RuntimeError: unexpected result",
          events |-> events, values |-> <<>>]
    ELSE LET value == DictGet(resp.body, "value", <<>>)
         IN  [conn |-> c, fs |-> f, raised |-> "", events |-> events,
              values |-> [i \in 1..Len(value) |-> MicroDict(value[i])]]

\* response.json(), the 'value' check and the wrapping of the elements.
get_response_values(c, f, events, resp) ==
    IF resp.kind # "response"
    THEN [conn |-> c, fs |-> f, raised |-> resp.kind, events |-> events, values |-> <<>>]
    ELSE IF ~DictHas(resp.body, "value")
    THEN [conn |-> c, fs |-> f, raised |-> "RuntimeError: unexpected result",
          events |-> events, values |-> <<>>]
    ELSE LET value == DictGet(resp.body, "value", <<>>)
         IN  [conn |-> c, fs |-> f, raised |-> "", events |-> events,
              values |-> [i \in 1..Len(value) |-> MicroDict(value[i])]]

\* A faulty variant: the refreshed token is saved under another path.
refreshed_token_path_custom == CustomPath

\* save_token(token): the path the refreshed token is saved under.
refreshed_token_path == NoPath

\* A faulty variant: the retried GET is sent without the request options.
refresh_and_retry_without_options(c, f, ev1, params, refresh, get2) ==
    LET ev2 == Append(ev1, Event("refresh_token", "", <<>>, NoToken,
                                 [kind |-> IF refresh.ok THEN "ok" ELSE "error", body |-> <<>>]))
    IN  IF ~refresh.ok
        THEN [conn |-> c, fs |-> f, raised |-> "refresh_token error", events |-> ev2,
              values |-> <<>>]
        ELSE LET c2 == [c EXCEPT !.oauth.token = SomeToken(refresh.token)]
                 sv == save_token(f, refresh.token, refreshed_token_path)
                 ev3 == ev2 \o
                     <<Event("save_token", refreshed_token_path, <<>>,
                             SomeToken(refresh.token), NoOutcome),
                       Event("oauth.get", "", <<>>, c2.oauth.token, get2)>>
             IN  get_response_values(c2, sv.fs, ev3, get2)

\* The handler of TokenExpiredError: refresh, save, and the GET once more.
refresh_and_retry(c, f, ev1, params, refresh, get2) ==
    LET ev2 == Append(ev1, Event("refresh_token", "", <<>>, NoToken,
                                 [kind |-> IF refresh.ok THEN "ok" ELSE "error", body |-> <<>>]))
    IN  IF ~refresh.ok
        THEN [conn |-> c, fs |-> f, raised |-> "refresh_token error", events |-> ev2,
              values |-> <<>>]
        ELSE LET c2 == [c EXCEPT !.oauth.token = SomeToken(refresh.token)]
                 sv == save_token(f, refresh.token, refreshed_token_path)
                 ev3 == ev2 \o
                     <<Event("save_token", refreshed_token_path, <<>>,
                             SomeToken(refresh.token), NoOutcome),
                       Event("oauth.get", "", params, c2.oauth.token, get2)>>
             IN  get_response_values(c2, sv.fs, ev3, get2)

\* get_response(): get1 is what the first GET comes to, refresh what the token
\* refresh comes to, get2 what the retried GET comes to.
get_response(c, f, kwargs, get1, refresh, get2) ==
    IF ~is_valid(c)
    THEN [conn |-> c, fs |-> f, raised |-> "RuntimeError: not configured",
          events |-> <<>>, values |-> <<>>]
    ELSE LET params == con_params(c, kwargs)
         IN  IF c.api_version = PyStr("1.0")
             THEN LET with_auth == DictSet(params, "auth",
                                           OptTuple(<<c.auth.username, c.auth.password>>))
                  IN  get_response_values(c, f,
                          <<Event("requests.get", "", with_auth, NoToken, get1)>>, get1)
             ELSE LET ev1 == <<Event("oauth.get", "", params, c.oauth.token, get1)>>
                  IN  IF get1.kind # "TokenExpiredError"
                      THEN get_response_values(c, f, ev1, get1)
                      ELSE refresh_and_retry(c, f, ev1, params, refresh, get2)

(***************************************************************************)
(* The values the calls are made with.                                     *)
(***************************************************************************)
MaxValueLen == 2
MaxKeyLen == 2

\* Tokens: what the token exchange gives, what a refresh gives, an empty dict.
TokenA == <<Entry("access_token", PyStr("A")), Entry("expires_in", PyInt(3600))>>
TokenB == <<Entry("access_token", PyStr("B")), Entry("expires_in", PyInt(-1)),
            Entry("refresh_token", None)>>
EmptyToken == <<>>
Tokens == {TokenA, TokenB, EmptyToken}
\* Every token of up to two entries.
TokenKeys == {"access_token", "expires_in"}
TokenValues == {None, PyStr("A"), PyStr(""), PyInt(0), PyInt(-1), PyInt(3600)}
TokenDicts ==
    Tokens \cup {<<Entry(k, v)>> : k \in TokenKeys, v \in TokenValues}
           \cup UNION {{<<Entry(k1, v1), Entry(k2, v2)>> :
                           v1 \in TokenValues, k2 \in TokenKeys \ {k1}, v2 \in TokenValues} :
                        k1 \in TokenKeys}
\* A dict json.dump cannot write to the end.
BadToken == <<Entry("access_token", PyStr("A")), Entry("session", Obj)>>

FetchOutcomes == {[ok |-> TRUE, token |-> TokenA], [ok |-> FALSE, token |-> <<>>]}
RefreshOutcomes == {[ok |-> TRUE, token |-> TokenB], [ok |-> FALSE, token |-> <<>>]}

KeyChars == {"s", "S"}
RECURSIVE KeysOfLen(_)
KeysOfLen(n) ==
    IF n = 0 THEN {<<>>} ELSE {Append(k, ch) : k \in KeysOfLen(n - 1), ch \in KeyChars}
Keys == UNION {KeysOfLen(n) : n \in 0..MaxKeyLen}
ItemValues == {None, PyStr("x"), PyStr("y")}
MicroDicts ==
    {<<>>} \cup {<<Entry(k, v)>> : k \in Keys, v \in ItemValues}
           \cup UNION {{<<Entry(k1, v1), Entry(k2, v2)>> :
                           v1 \in ItemValues, k2 \in Keys \ {k1}, v2 \in ItemValues} :
                        k1 \in Keys}

\* The elements a "value" array is made of, and the bodies of the responses.
Item(n) ==
    IF n % 2 = 1 THEN <<Entry(<<"S">>, PyStr("x")), Entry(<<"s", "s">>, PyInt(n))>>
    ELSE <<Entry(<<"s">>, None), Entry(<<"S">>, PyInt(n))>>
ValueArrays == {[i \in 1..n |-> Item(i)] : n \in 0..MaxValueLen}
Bodies == {<<Entry("error", <<>>)>>} \cup {<<Entry("value", a)>> : a \in ValueArrays}
GetOutcomes == {Expired, TransportError} \cup {Response(b) : b \in Bodies}

KwargsSet ==
    {<<>>,
     <<Entry("proxies", OptDict(<<Entry("http", "http://other:3128")>>))>>,
     <<Entry("auth", OptTuple(<<"caller", "pw2">>)), Entry("params", OptStr("$top=1"))>>}

(***************************************************************************)
(* The calls.                                                              *)
(***************************************************************************)
NoCall ==
    [op |-> "", raised |-> "", token_path |-> "", store_token |-> TRUE, kwargs |-> <<>>,
     events |-> <<>>, values |-> <<>>, token |-> NoToken]

File(token_path) == IF token_path \in {NoPath, ""} THEN default_token_path ELSE token_path

Init ==
    /\ instances = <<>>
    /\ _instance = 0
    /\ fs = [p \in Files |-> NoFile]
    /\ last = NoCall
    /\ hist = [login_ran |-> FALSE, oauth2_ran |-> FALSE, configured |-> FALSE,
               authorized |-> {}]
    /\ md = <<>>
    /\ key = <<>>
    /\ found = None

Login(username, password) ==
    LET s == Singleton__call__(instances, _instance)
    IN  /\ instances' = [s.instances EXCEPT ![s._instance] = login(@, username, password)]
        /\ _instance' = s._instance
        /\ last' = [NoCall EXCEPT !.op = "login"]
        /\ hist' = [hist EXCEPT !.login_ran = TRUE, !.configured = TRUE]
        /\ UNCHANGED <<fs, md, key, found>>

Proxy(url, port, username, password) ==
    LET s == Singleton__call__(instances, _instance)
    IN  /\ instances' = [s.instances EXCEPT ![s._instance] = proxy(@, url, port, username, password)]
        /\ _instance' = s._instance
        /\ last' = [NoCall EXCEPT !.op = "proxy"]
        /\ UNCHANGED <<fs, hist, md, key, found>>

OAuth2(client_id, client_secret, store_token, token_path, fetch) ==
    LET s == Singleton__call__(instances, _instance)
    IN  \E r \in {oauth2(s.instances[s._instance], fs, client_id, client_secret, store_token,
                          token_path, fetch)} :
        LET prompted == \E i \in 1..Len(r.events) : r.events[i].e = "prompt"
        IN
        /\ instances' = [s.instances EXCEPT ![s._instance] = r.conn]
        /\ _instance' = s._instance
        /\ fs' = r.fs
        /\ last' = [NoCall EXCEPT !.op = "oauth2", !.raised = r.raised,
                                  !.token_path = token_path, !.store_token = store_token,
                                  !.events = r.events]
        /\ hist' = [hist EXCEPT !.oauth2_ran = TRUE,
                                !.configured = @ \/ r.raised = "",
                                !.authorized = IF prompted /\ r.raised = ""
                                               THEN @ \cup {File(token_path)} ELSE @]
        /\ UNCHANGED <<md, key, found>>

\* A session that holds no token never signals that its token has expired, and
\* requests.get never does.
FirstGetOutcomes(c) ==
    IF c.api_version = PyStr("2.0") /\ Truthy(c.oauth.token)
    THEN GetOutcomes ELSE GetOutcomes \ {Expired}

GetResponse(kwargs) ==
    LET s == Singleton__call__(instances, _instance)
        c == s.instances[s._instance]
    IN  \E get1 \in FirstGetOutcomes(c) :
        \E refresh \in (IF get1 = Expired THEN RefreshOutcomes ELSE {[ok |-> FALSE, token |-> <<>>]}) :
        \E get2 \in (IF get1 = Expired /\ refresh.ok THEN GetOutcomes ELSE {TransportError}) :
            \E r \in {get_response(c, fs, kwargs, get1, refresh, get2)} :
                /\ instances' = [s.instances EXCEPT ![s._instance] = r.conn]
                /\ _instance' = s._instance
                /\ fs' = r.fs
                /\ last' = [NoCall EXCEPT !.op = "get_response", !.raised = r.raised,
                                          !.kwargs = kwargs, !.events = r.events,
                                          !.values = r.values]
                /\ UNCHANGED <<hist, md, key, found>>

SaveToken(token, token_path) ==
    LET r == save_token(fs, token, token_path)
    IN  /\ fs' = r.fs
        /\ last' = [NoCall EXCEPT !.op = "save_token", !.raised = r.raised,
                                  !.token_path = token_path, !.token = SomeToken(token)]
        /\ UNCHANGED <<instances, _instance, hist, md, key, found>>

LoadToken(token_path) ==
    LET r == load_token(fs, token_path)
    IN  /\ last' = [NoCall EXCEPT !.op = "load_token", !.raised = r.raised,
                                  !.token_path = token_path, !.token = r.token]
        /\ UNCHANGED <<instances, _instance, fs, hist, md, key, found>>

DeleteToken(token_path) ==
    /\ fs' = delete_token(fs, token_path)
    /\ last' = [NoCall EXCEPT !.op = "delete_token", !.token_path = token_path]
    /\ UNCHANGED <<instances, _instance, hist, md, key, found>>

Next ==
    \/ Login("user", "pw")
    \/ Proxy("proxy.local", "8080", "puser", "ppw")
    \/ \E store_token \in BOOLEAN, token_path \in {NoPath, CustomPath}, fetch \in FetchOutcomes :
           OAuth2("cid", "secret", store_token, token_path, fetch)
    \/ \E kwargs \in KwargsSet : GetResponse(kwargs)
    \/ \E token \in {TokenA, EmptyToken, BadToken}, token_path \in {NoPath, CustomPath} :
           SaveToken(token, token_path)
    \/ \E token_path \in {NoPath, CustomPath} : DeleteToken(token_path)

Spec == Init /\ [][Next]_vars

(***************************************************************************)
(* MicroDict lookups, on every MicroDict of up to two entries.             *)
(***************************************************************************)
InitDict ==
    /\ instances = <<>>
    /\ _instance = 0
    /\ fs = [p \in Files |-> NoFile]
    /\ last = NoCall
    /\ hist = [login_ran |-> FALSE, oauth2_ran |-> FALSE, configured |-> FALSE,
               authorized |-> {}]
    /\ md \in MicroDicts
    /\ key = <<>>
    /\ found = None

GetItem(k) ==
    /\ key' = k
    /\ found' = MicroDict__getitem__(md, k)
    /\ last' = [NoCall EXCEPT !.op = "__getitem__"]
    /\ UNCHANGED <<instances, _instance, fs, hist, md>>

NextDict == \E k \in Keys : GetItem(k)

SpecDict == InitDict /\ [][NextDict]_vars

(***************************************************************************)
(* The token functions alone, on every path argument.                      *)
(***************************************************************************)
NextToken ==
    \/ \E token \in Tokens \cup {BadToken}, token_path \in PathArgs : SaveToken(token, token_path)
    \/ \E token_path \in PathArgs : LoadToken(token_path)
    \/ \E token_path \in PathArgs : DeleteToken(token_path)

SpecToken == Init /\ [][NextToken]_vars

(***************************************************************************)
(* Properties.                                                             *)
(***************************************************************************)
\* The process-wide Connection; the one the first Connection() will construct
\* while there is none yet.
Conn(insts, inst) == IF inst = 0 THEN Connection__init__ ELSE insts[inst]

DictKeys(d) == {d[i].k : i \in 1..Len(d)}
HasEvent(events, e) == \E i \in 1..Len(events) : events[i].e = e
CountEvents(events, es) == Cardinality({i \in 1..Len(events) : events[i].e \in es})
IsBasic(c) == c.api_version = PyStr("1.0")

\* C1 as stated: is_valid() is false while neither login() nor oauth2() has run,
\* and whenever is_valid() is true exactly one of auth and oauth is set.
C1_ExactlyOneOfAuthAndOauth ==
    LET c == Conn(instances, _instance)
    IN  /\ (~hist.login_ran /\ ~hist.oauth2_ran) => ~is_valid(c)
        /\ is_valid(c) => (c.auth.set # c.oauth.set)

\* C1 amended: is_valid() is false while neither login() nor oauth2() has run;
\* whenever is_valid() is true the field api_version selects is set, so at least
\* one of auth and oauth is; auth is set exactly once login() has run and oauth
\* only once oauth2() has run, neither call clearing the other's field.
C1_ValidMeansSelectedFieldSet ==
    LET c == Conn(instances, _instance)
    IN  /\ (~hist.login_ran /\ ~hist.oauth2_ran) => ~is_valid(c)
        /\ is_valid(c) => (c.auth.set \/ c.oauth.set)
        /\ is_valid(c) => IF IsBasic(c) THEN c.auth.set ELSE c.oauth.set
        /\ c.auth.set <=> hist.login_ran
        /\ c.oauth.set => hist.oauth2_ran

\* Valid, with both auth and oauth set: login() and oauth2() have both run.
C1_Witness ==
    LET c == Conn(instances, _instance)
    IN  is_valid(c) /\ c.auth.set /\ c.oauth.set /\ last.op = "oauth2"

\* C2: get_response() called while no login() or oauth2() call has completed
\* fails with the configuration RuntimeError before any GET or refresh, and
\* changes neither the Connection nor the token files.
C2_UnconfiguredFailsFast ==
    [][(last'.op = "get_response" /\ ~hist.configured)
        => /\ last'.raised = "RuntimeError: not configured"
           /\ last'.events = <<>>
           /\ fs' = fs
           /\ Conn(instances', _instance') = Conn(instances, _instance)]_vars

\* C3: one get_response() call in OAuth2 mode answers a token-expiry signal on
\* the first GET with one refresh and one retry with the same options, and no
\* more: a failed refresh or a second expiry propagates.  In basic-auth mode
\* it issues one GET and never refreshes.
C3_OneRefreshOneRetry ==
    (last.op = "get_response" /\ last.events # <<>>) =>
        LET ev == last.events
            c == Conn(instances, _instance)
        IN  /\ CountEvents(ev, {"requests.get", "oauth.get"}) <= 2
            /\ CountEvents(ev, {"refresh_token"}) <= 1
            /\ IF IsBasic(c)
               THEN Len(ev) = 1 /\ ev[1].e = "requests.get"
               ELSE /\ ev[1].e = "oauth.get"
                    /\ IF ev[1].out # Expired THEN Len(ev) = 1
                       ELSE /\ Len(ev) >= 2
                            /\ ev[2].e = "refresh_token"
                            /\ ev[2].out.kind = "error"
                                 => Len(ev) = 2 /\ last.raised = "refresh_token error"
                            /\ ev[2].out.kind = "ok"
                                 => /\ Len(ev) = 4
                                    /\ ev[3].e = "save_token"
                                    /\ ev[4].e = "oauth.get"
                                    /\ ev[4].opts = ev[1].opts
                                    /\ ev[4].out = Expired => last.raised = "TokenExpiredError"

\* A call that met an expired token, refreshed it and got its answer on the retry.
C3_Witness ==
    /\ last.op = "get_response"
    /\ Len(last.events) = 4
    /\ last.events[1].out = Expired
    /\ last.raised = ""
    /\ last.kwargs # <<>>

\* C4: the refreshed token is written to the default token path, before the
\* retried GET, and the file at a custom token_path is left as it was.
C4_RefreshSavesToDefaultPath ==
    [][(last'.op = "get_response" /\ HasEvent(last'.events, "refresh_token")
          /\ last'.events[2].out.kind = "ok")
        => /\ Len(last'.events) = 4
           /\ last'.events[3].e = "save_token"
           /\ last'.events[4].e = "oauth.get"
           /\ fs'[default_token_path].exists
           /\ json_load(fs'[default_token_path].text).ok
           /\ DictEq(json_load(fs'[default_token_path].text).d, last'.events[3].token.d)
           /\ Conn(instances', _instance').oauth.token = last'.events[3].token
           /\ fs'[CustomPath] = fs[CustomPath]]_vars

\* The session was authorized under the custom path only, its token was
\* refreshed, and the custom file still holds the token from before the refresh.
C4_Witness ==
    /\ last.op = "get_response"
    /\ Len(last.events) = 4
    /\ hist.authorized = {CustomPath}
    /\ fs[CustomPath].exists
    /\ json_load(fs[CustomPath].text).d = TokenA
    /\ json_load(fs[default_token_path].text).d = TokenB

SamePathResults(f, token, p, q) ==
    /\ save_token(f, token, p) = save_token(f, token, q)
    /\ load_token(f, p) = load_token(f, q)
    /\ delete_token(f, p) = delete_token(f, q)

\* C6: on every file system the token functions reach, for every token T and
\* path p: save_token(T, p) then load_token(p) returns a dict equal to T;
\* delete_token(p) then load_token(p) returns None; with no file at p,
\* load_token returns None and delete_token does nothing, without error; none
\* of this changes what load_token returns for another path; and None and ''
\* mean the default path.
C6_TokenRoundTrip ==
    \A p \in PathArgs :
        /\ \A T \in TokenDicts :
               LET saved == save_token(fs, T, p)
                   loaded == load_token(saved.fs, p)
               IN  /\ saved.raised = ""
                   /\ loaded.raised = ""
                   /\ loaded.token.some
                   /\ DictEq(loaded.token.d, T)
                   /\ Len(loaded.token.d) = Len(T)
                   /\ \A q \in PathArgs :
                          File(q) # File(p) => load_token(saved.fs, q) = load_token(fs, q)
                   /\ SamePathResults(fs, T, NoPath, "")
                   /\ SamePathResults(fs, T, NoPath, default_token_path)
        /\ load_token(delete_token(fs, p), p) = [token |-> NoToken, raised |-> ""]
        /\ \A q \in PathArgs :
               File(q) # File(p) => load_token(delete_token(fs, p), q) = load_token(fs, q)
        /\ ~fs[File(p)].exists
               => /\ load_token(fs, p) = [token |-> NoToken, raised |-> ""]
                  /\ delete_token(fs, p) = fs

\* load_token(custom path) returned the token saved there, while the default
\* path holds another token.
C6_Witness ==
    /\ last.op = "load_token"
    /\ last.token_path = CustomPath
    /\ last.raised = ""
    /\ last.token = SomeToken(TokenB)
    /\ fs[default_token_path].exists
    /\ json_load(fs[default_token_path].text).d = TokenA

\* The options the first GET of the last get_response() call was sent with.
SentOptions == last.events[1].opts

\* C7 as stated: the options sent are the proxy settings (under 'proxies', only
\* when proxy_dict is set) overlaid by the caller's options, the caller's value
\* being the one sent for every key, in basic-auth and in OAuth2 mode.
C7_CallerOptionsAlwaysWin ==
    (last.op = "get_response" /\ last.events # <<>>) =>
        LET c == Conn(instances, _instance)
        IN  /\ \A k \in DictKeys(last.kwargs) :
                   DictGet(SentOptions, k, OptStr("")) = DictGet(last.kwargs, k, OptStr(""))
            /\ ~DictHas(last.kwargs, "proxies") =>
                   IF c.proxy_dict.set
                   THEN DictGet(SentOptions, "proxies", OptStr("")) = OptDict(c.proxy_dict.d)
                   ELSE ~DictHas(SentOptions, "proxies")

\* C7 amended: the options sent are the proxy settings (under 'proxies', only
\* when proxy_dict is set) overlaid by the caller's options, the caller's value
\* being the one sent for every key but 'auth' in basic-auth mode, where the
\* Connection's credentials are sent whatever the caller passed.
C7_CallerOptionsWinButAuth ==
    (last.op = "get_response" /\ last.events # <<>>) =>
        LET c == Conn(instances, _instance)
            credentials == OptTuple(<<c.auth.username, c.auth.password>>)
        IN  /\ DictKeys(SentOptions) =
                   DictKeys(last.kwargs)
                     \cup (IF c.proxy_dict.set THEN {"proxies"} ELSE {})
                     \cup (IF IsBasic(c) THEN {"auth"} ELSE {})
            /\ \A k \in DictKeys(SentOptions) :
                   DictGet(SentOptions, k, OptStr("")) =
                       IF IsBasic(c) /\ k = "auth" THEN credentials
                       ELSE IF DictHas(last.kwargs, k) THEN DictGet(last.kwargs, k, OptStr(""))
                       ELSE OptDict(c.proxy_dict.d)
            /\ \A i \in 1..Len(last.events) :
                   last.events[i].e \in {"requests.get", "oauth.get"}
                     => last.events[i].opts = SentOptions

\* A basic-auth call through a proxy whose caller passed its own 'auth'.
C7_Witness ==
    /\ last.op = "get_response"
    /\ last.events # <<>>
    /\ IsBasic(Conn(instances, _instance))
    /\ Conn(instances, _instance).proxy_dict.set
    /\ DictHas(last.kwargs, "auth")
    /\ DictGet(SentOptions, "auth", OptStr("")) = OptTuple(<<"user", "pw">>)
    /\ DictHas(SentOptions, "proxies")

\* C8: when the transport answers with a JSON object, get_response() raises
\* RuntimeError if it has no "value" key, and otherwise returns the elements
\* of the "value" array, wrapped, in the same number and order; an empty array
\* gives an empty sequence.
C8_ValuesWrappedInOrder ==
    (last.op = "get_response" /\ last.events # <<>>
       /\ last.events[Len(last.events)].out.kind = "response") =>
        LET body == last.events[Len(last.events)].out.body
            value == DictGet(body, "value", <<>>)
        IN  IF ~DictHas(body, "value")
            THEN last.raised = "RuntimeError: unexpected result" /\ last.values = <<>>
            ELSE /\ last.raised = ""
                 /\ Len(last.values) = Len(value)
                 /\ \A i \in 1..Len(value) :
                        /\ DictEq(last.values[i], value[i])
                        /\ \A k \in DictKeys(value[i]) :
                               DictGet(last.values[i], k, None) = DictGet(value[i], k, None)

\* A call that returned two elements, which differ.
C8_Witness ==
    /\ last.op = "get_response"
    /\ last.raised = ""
    /\ Len(last.values) = 2
    /\ last.values[1] # last.values[2]

\* The key with its first character lowercased, uppercased.
LowerFirst(k) == str_lower(first_char(k)) \o after_first(k)
UpperFirst(k) == str_upper(first_char(k)) \o after_first(k)

\* C9 as stated: the lookup of k returns the value stored under k with its
\* first character lowercased if that key is present, the value stored under
\* k with its first character uppercased only if it is absent, and None when
\* neither is present; so the result does not depend on the case of the first
\* character of k.
C9_LowercaseKeyWinsWhenPresent ==
    last.op = "__getitem__" =>
        /\ found = IF DictHas(md, LowerFirst(key)) THEN DictGet(md, LowerFirst(key), None)
                   ELSE IF DictHas(md, UpperFirst(key)) THEN DictGet(md, UpperFirst(key), None)
                   ELSE None
        /\ MicroDict__getitem__(md, LowerFirst(key)) = found
        /\ MicroDict__getitem__(md, UpperFirst(key)) = found

\* C9 amended: the lookup of k returns the value stored under k with its first
\* character lowercased if that key is present with a value other than None;
\* otherwise the value stored under k with its first character uppercased if
\* that key is present; and None otherwise.  The result does not depend on the
\* case of the first character of k.
C9_LowercaseKeyWinsUnlessNone ==
    last.op = "__getitem__" =>
        /\ found = IF DictHas(md, LowerFirst(key)) /\ DictGet(md, LowerFirst(key), None) # None
                   THEN DictGet(md, LowerFirst(key), None)
                   ELSE IF DictHas(md, UpperFirst(key)) THEN DictGet(md, UpperFirst(key), None)
                   ELSE None
        /\ MicroDict__getitem__(md, LowerFirst(key)) = found
        /\ MicroDict__getitem__(md, UpperFirst(key)) = found

\* A key stored with an uppercase first character, found by the lowercase key.
C9_Witness ==
    /\ last.op = "__getitem__"
    /\ key = <<"s", "s">>
    /\ md = <<Entry(<<"S", "s">>, PyStr("x")), Entry(<<"s", "S">>, PyStr("y"))>>
    /\ found = PyStr("x")

====
